---- MODULE Spec2Model ----
(***************************************************************************)
(* Model of the ROHC sniffer (app/sniffer/sniffer.c): the capture loop of  *)
(* sniff(), the per-packet pipeline compress_decompress(), the packet      *)
(* comparator compare_packets(), the trace ring of print_rohc_traces() and *)
(* the RTP detection callback rtp_detect_cb().                             *)
(*                                                                         *)
(* Specifications: Spec (the loop, fed with short frames), SpecPipeline    *)
(* (the loop, fed with one frame of any shape), SpecScenario (the loop,    *)
(* fed with one UDP flow kept in context 0), SpecSetup (sniff from its     *)
(* first statement), SpecCompare, SpecRtp and SpecTrace (one function      *)
(* each).                                                                  *)
(*                                                                         *)
(* The ROHC library and libpcap are external: their answers (sizes,        *)
(* context ids, failures, trace lines) are nondeterministic inputs.        *)
(* assert(0) is modelled as the process abort of a build with assertions   *)
(* enabled.                                                                *)
(***************************************************************************)
EXTENDS Integers, Sequences, FiniteSets, TLC

VARIABLES
    pc,                 \* position of sniff(): "loop" (test of the stop flag), "read"
                        \* (in pcap_next), "process" (frame in hand), "exit" (after the
                        \* loop), "done" (returned), "halted" (assert(0) of sniff),
                        \* "aborted" (assert(0) of compress_decompress), "crashed"
                        \* (write through a NULL dump handle), "idle" (no session)
    stop_program,       \* the stop flag set by handle_signals
    link_len_src,       \* link layer header length of the session
    traffic,            \* what the capture source delivers: "any" frame once, "flows",
                        \* one "short" flow frame, or the UDP flow of the "scenario"
    counter,            \* number of packets read
    cur,                \* the frame returned by pcap_next (header + bytes)
    ret,                \* last return value of compress_decompress (0 until assigned)
    cid,                \* CID recorded for the last packet
    stats,              \* nb_ok, err_comp, err_decomp, nb_ref, nb_bad, nb_internal_err
    dumpers,            \* dumpers[]: context id -> handle (NULL = 0)
    handles,            \* every pcap_dumper_t ever opened: handle -> [file, open]
    files,              \* dump files on disk: file name -> sequence of frames
    calls,              \* calls made by compress_decompress for the current packet
    comp_arg,           \* (packet, size) given to rohc_compress for the current packet
    cmp_arg,            \* arguments given to compare_packets for the current packet
    last_packet_info,   \* what rohc_comp_get_last_packet_info2 reported for the
                        \* current packet: context_id, is_context_init
    assigned,           \* the frames the engine assigned to a context so far, in
                        \* arrival order: context_id, is_context_init, frame
    resources,          \* the capture handle, the compressor and the decompressor of
                        \* sniff: how many times each was acquired and released
    exit_status,        \* how the process ended: "running", "success" (main returns 0),
                        \* "failure" (main returns 1), "abort" (assert(0))
    err_out,            \* what sniff wrote on stderr (statistics line, trace drain)
    last_traces,        \* the ring buffer of the last traces
    last_traces_first,  \* index of the first trace
    last_traces_last,   \* index of the last trace
    trace_log,          \* every text given to print_rohc_traces so far, in order
    cmp_in,             \* compare_packets harness: the two packets
    cmp_out,            \* compare_packets harness: result and printed output
    host_le,            \* whether the host is little-endian
    rtp_in,             \* rtp_detect_cb harness: the UDP header and payload
    rtp_out             \* rtp_detect_cb harness: the result

sessvars == <<host_le, pc, stop_program, link_len_src, traffic, counter, cur, ret, cid, stats,
              dumpers, handles, files, calls, comp_arg, cmp_arg, last_packet_info,
              assigned, resources, exit_status>>
tracevars == <<err_out, last_traces, last_traces_first, last_traces_last, trace_log>>
cmpvars == <<cmp_in, cmp_out>>
rtpvars == <<rtp_in, rtp_out>>
vars == <<sessvars, tracevars, cmpvars, rtpvars>>

-----------------------------------------------------------------------------
(* Helpers of the C language and of the C library                          *)

\* min(x, y) macro
min(x, y) == IF x < y THEN x ELSE y

\* max(x, y) macro
max(x, y) == IF x > y THEN x ELSE y

\* C arrays are indexed from 0, sequences from 1
At(buf, i) == buf[i + 1]

\* memcmp(a, b, n) == 0
memcmp_eq(a, b, n) == \A i \in 0 .. n - 1 : At(a, i) = At(b, i)

\* one hexadecimal digit, as printf prints it
HexDigit(n) ==
    <<"0", "1", "2", "3", "4", "5", "6", "7",
      "8", "9", "a", "b", "c", "d", "e", "f">>[n + 1]

-----------------------------------------------------------------------------
(* compare_packets                                                         *)

\* the comparator never prints more than this number of bytes
CMP_MAX_BYTES == 180

\* sprintf(str, "%c0x%.2x%c", sep1, byte, sep2)
FormatByte(sep1, byte, sep2) ==
    <<sep1, "0", "x", HexDigit(byte \div 16), HexDigit(byte % 16), sep2>>

\* the cell of byte i: '#' on both sides when the two packets differ there
Cell(pkt, pkt1, pkt2, i) ==
    IF At(pkt1, i) # At(pkt2, i)
    THEN FormatByte("#", At(pkt, i), "#")
    ELSE FormatByte("[", At(pkt, i), "]")

\* the line printed when j reaches 3 or the last byte is formatted: it
\* started at byte i, j is the index of its last cell; the cells of the
\* reference packet, blanks up to 4 cells, then the cells of the new packet
PrintRow(pkt1, pkt2, i, j) ==
    [ref |-> [k \in 1 .. 4 |-> IF k - 1 < j + 1
                               THEN Cell(pkt1, pkt1, pkt2, i + k - 1) ELSE <<>>],
     new |-> [k \in 1 .. j + 1 |-> Cell(pkt2, pkt1, pkt2, i + k - 1)]]

\* the loop over the bytes, one row of at most 4 bytes at a time: i is the
\* first byte of the row
RECURSIVE CompareLoop(_, _, _, _)
CompareLoop(pkt1, pkt2, min_size, i) ==
    IF i >= min_size THEN <<>>
    ELSE LET j == min(3, min_size - 1 - i)
         IN  <<PrintRow(pkt1, pkt2, i, j)>> \o CompareLoop(pkt1, pkt2, min_size, i + j + 1)

\* a variant that compares only the bytes it would print
compare_equal_printed(pkt1, pkt1_size, pkt2, pkt2_size) ==
    /\ pkt1_size = pkt2_size
    /\ memcmp_eq(pkt1, pkt2, min(CMP_MAX_BYTES, pkt1_size))

\* the test of the fast path: same size and memcmp() over the whole packet
compare_equal(pkt1, pkt1_size, pkt2, pkt2_size) ==
    /\ pkt1_size = pkt2_size
    /\ memcmp_eq(pkt1, pkt2, pkt1_size)

\* a variant that stops printing one byte early
compare_min_size_short(pkt1_size, pkt2_size) ==
    min(CMP_MAX_BYTES - 1, min(pkt1_size, pkt2_size))

\* the number of bytes printed
compare_min_size(pkt1_size, pkt2_size) ==
    min(CMP_MAX_BYTES, min(pkt1_size, pkt2_size))

\* compare_packets: valid is the value returned, rows the byte rows printed,
\* sizes the "different sizes" line (or <<>>), banner whether the Compare
\* banner and the "packets are different" footer were printed
compare_packets(pkt1, pkt1_size, pkt2, pkt2_size) ==
    LET min_size == compare_min_size(pkt1_size, pkt2_size)
    IN  IF compare_equal(pkt1, pkt1_size, pkt2, pkt2_size)
        THEN [valid |-> 1, banner |-> FALSE, sizes |-> <<>>, rows |-> <<>>]
        ELSE [valid |-> 0,
              banner |-> TRUE,
              sizes |-> IF pkt1_size # pkt2_size
                        THEN <<pkt1_size, pkt2_size, min_size>>
                        ELSE <<>>,
              rows |-> CompareLoop(pkt1, pkt2, min_size, 0)]

-----------------------------------------------------------------------------
(* rtp_detect_cb                                                           *)

\* memcpy(&x, p, sizeof(uint16_t)): the two bytes at p as the host reads them
LoadU16(b0, b1, little_endian) ==
    IF little_endian THEN b0 + 256 * b1 ELSE 256 * b0 + b1

\* ntohs(x): swaps the two bytes on a little-endian host
ntohs(x, little_endian) ==
    IF little_endian THEN (x % 256) * 256 + (x \div 256) ELSE x

\* a variant without the parity rule
rtp_dport_is_odd_never(udp_dport, little_endian) == FALSE

\* the parity test of the code: on the value loaded by memcpy
rtp_dport_is_odd(udp_dport, little_endian) ==
    (udp_dport % 2) # 0

\* the payload types accepted: GSM, G.723, G.729, telephony-event
rtp_pt_ok(rtp_pt) == rtp_pt \in {3, 4, 18, 101}

\* SIP (UDP/5060) is not RTP
rtp_is_sip(udp_sport, udp_dport, little_endian) ==
    /\ ntohs(udp_sport, little_endian) = 5060
    /\ ntohs(udp_dport, little_endian) = 5060

\* udp: the first 6 bytes of the UDP header; payload: the first 2 bytes of
\* the UDP payload; payload_size: its size; the result is is_rtp
rtp_detect_cb(udp, payload, payload_size, little_endian) ==
    LET udp_sport == LoadU16(At(udp, 0), At(udp, 1), little_endian)
        udp_dport == LoadU16(At(udp, 2), At(udp, 3), little_endian)
        udp_len == LoadU16(At(udp, 4), At(udp, 5), little_endian)
        rtp_pt == At(payload, 1) % 128
    IN  IF rtp_is_sip(udp_sport, udp_dport, little_endian) THEN FALSE
        ELSE IF rtp_dport_is_odd(udp_dport, little_endian) THEN FALSE
        ELSE IF ntohs(udp_len, little_endian) > 200 THEN FALSE
        ELSE IF payload_size < 12 THEN FALSE
        ELSE IF ((At(payload, 0) \div 64) % 4) # 2 THEN FALSE
        ELSE IF ~rtp_pt_ok(rtp_pt) THEN FALSE
        ELSE TRUE

-----------------------------------------------------------------------------
(* The trace ring: print_rohc_traces and the drain of sniff                *)

\* number of slots of the ring (5000 in the source, scaled down)
MAX_LAST_TRACES == 3

\* longest trace kept in a slot (300 in the source, scaled down)
MAX_TRACE_LEN == 3

\* the formatted traces the library may emit, as sequences of characters
TraceTexts == {<<"a">>, <<"b", "c">>, <<"d", "e", "f", "g", "h">>}

\* vsnprintf(slot, MAX_TRACE_LEN + 1, ...) then slot[MAX_TRACE_LEN] = '\0'
TruncateTrace(text) == SubSeq(text, 1, min(Len(text), MAX_TRACE_LEN))

\* the ring as main() leaves it: every slot empty, both cursors at -1
EmptyRing ==
    [buf |-> [i \in 0 .. MAX_LAST_TRACES - 1 |-> <<>>], first |-> -1, last |-> -1]

\* a variant of the cursor update that forgets to wrap the newest cursor
next_last_nowrap(last) ==
    IF last = -1 THEN 0 ELSE min(last + 1, MAX_LAST_TRACES - 1)

\* the new value of last_traces_last
next_last(last) ==
    IF last = -1 THEN 0 ELSE (last + 1) % MAX_LAST_TRACES

\* a variant of the cursor update that never drops the oldest trace
next_first_never(first, new_last) == IF first = -1 THEN 0 ELSE first

\* the new value of last_traces_first, once last_traces_last was advanced
next_first(first, new_last) ==
    IF first = -1 THEN 0
    ELSE IF first = new_last THEN (first + 1) % MAX_LAST_TRACES
    ELSE first

\* print_rohc_traces on the ring r (the echo on stdout is not modelled)
print_rohc_traces(r, text) ==
    LET new_last == next_last(r.last)
    IN  [buf |-> [r.buf EXCEPT ![new_last] = TruncateTrace(text)],
         first |-> next_first(r.first, new_last),
         last |-> new_last]

\* print_rohc_traces called for each text of a sequence, in order
RECURSIVE RecordAll(_, _)
RecordAll(r, texts) ==
    IF texts = <<>> THEN r
    ELSE RecordAll(print_rohc_traces(r, Head(texts)), Tail(texts))

\* for(i = from; i <= to; i++) fprintf(stderr, "%s", last_traces[i % MAX])
RECURSIVE DrainLoop(_, _, _)
DrainLoop(buf, i, to) ==
    IF i > to THEN <<>>
    ELSE <<[trace |-> buf[i % MAX_LAST_TRACES]]>> \o DrainLoop(buf, i + 1, to)

\* a variant of the drain that stops at the end of the array
drain_wrapped_to_end(first, last) == MAX_LAST_TRACES - 1

\* the upper bound of the drain loop when first > last
drain_wrapped_to(first, last) == MAX_LAST_TRACES + last

\* a variant of the drain that does not test the cursors for -1
DrainTraces_unguarded(r) ==
    <<[announced |-> r.last - r.first]>> \o DrainLoop(r.buf, max(r.first, 0), r.last)

\* the drain of sniff: what it writes on stderr for the ring r
DrainTraces(r) ==
    IF r.first = -1 \/ r.last = -1
    THEN <<[msg |-> "no trace to display"]>>
    ELSE IF r.first <= r.last
    THEN <<[announced |-> r.last - r.first]>>
         \o DrainLoop(r.buf, r.first, r.last)
    ELSE <<[announced |-> MAX_LAST_TRACES - r.first + r.last]>>
         \o DrainLoop(r.buf, r.first, drain_wrapped_to(r.first, r.last))

\* a variant of the statistics line that prints no CID
StatsLine_no_cid(n, c, st) == [msg |-> "stats", packet |-> n, cid |-> 0, stats |-> st]

\* the statistics line sniff prints before the traces
StatsLine(n, c, st) == [msg |-> "stats", packet |-> n, cid |-> c, stats |-> st]

\* the ring held in the three variables
Ring == [buf |-> last_traces, first |-> last_traces_first, last |-> last_traces_last]

-----------------------------------------------------------------------------
(* Captured frames                                                         *)

\* length of the Ethernet header (net/ethernet.h)
ETHER_HDR_LEN == 14

\* length of the Linux cooked sockets header
LINUX_COOKED_HDR_LEN == 16

\* the minimum Ethernet length
ETHER_FRAME_MIN_LEN == 60

\* sizeof(struct ip6_hdr)
IP6_HDR_LEN == 40

\* the link layer header lengths sniff accepts: Ethernet, Linux cooked, raw
LinkLens == {ETHER_HDR_LEN, LINUX_COOKED_HDR_LEN, 0}

\* an IP packet of `size` bytes: byte 0 holds the version nibble, bytes 2-3
\* the 16-bit word w1 (IPv4 total length), bytes 4-5 the 16-bit word w2
\* (IPv6 payload length), both in network byte order
IpPacket(byte0, w1, w2, size) ==
    [i \in 1 .. size |->
        CASE i = 1 -> byte0
          [] i = 3 -> w1 \div 256
          [] i = 4 -> w1 % 256
          [] i = 5 -> w2 \div 256
          [] i = 6 -> w2 % 256
          [] OTHER -> (i * 7) % 256]

\* a frame as pcap_next returns it: the pcap header (len, caplen) and the
\* caplen bytes captured, link layer first
Frame(link, ip, missing) ==
    LET all == [i \in 1 .. link |-> 0] \o ip
    IN  [len |-> Len(all),
         caplen |-> Len(all) - missing,
         data |-> SubSeq(all, 1, Len(all) - missing)]

\* the IP packets fed to the session: sizes around the 60 byte Ethernet
\* minimum (46, 44 and 60 bytes of IP for the three link layers), with and
\* without padding, IPv4, IPv6 and another version nibble
IpPackets(link) ==
    LET at_min == ETHER_FRAME_MIN_LEN - link
    IN  { IpPacket(69, at_min, 0, at_min),
          IpPacket(69, 28, 0, at_min),
          IpPacket(69, 300, 0, at_min),
          IpPacket(69, 0, 0, at_min),
          IpPacket(96, 0, 4, at_min),
          IpPacket(96, 0, at_min - IP6_HDR_LEN, at_min),
          IpPacket(96, 0, 256, at_min),
          IpPacket(0, 1, 2, at_min),
          IpPacket(69, 28, 0, 28),
          IpPacket(69, 20, 0, at_min + 1),
          IpPacket(69, 1, 0, 1) }

\* the frames pcap_next may return: well-formed ones, one with no byte after
\* the link layer, and truncated captures
Frames(link) ==
    { Frame(link, ip, 0) : ip \in IpPackets(link) }
    \cup { Frame(link, <<>>, 0),
           Frame(link, IpPacket(69, 28, 0, 28), 1),
           Frame(link, IpPacket(69, 28, 0, ETHER_FRAME_MIN_LEN - link), 20) }

-----------------------------------------------------------------------------
(* The answers of the external collaborators                               *)

\* largest number of contexts of a session (--max-contexts)
MaxContexts == 2

\* the NULL dump handle
NULL == 0

\* the fallback dump file and the dump file of a context
DefaultFile == [kind |-> "default", id |-> 0]
CidFile(c) == [kind |-> "cid", id |-> c]
DumpFileNames == {DefaultFile} \cup {CidFile(c) : c \in 0 .. MaxContexts - 1}

\* the traces the library emits during one call of the session
EngineTraces == {<<>>, << <<"d", "e", "f", "g", "h">> >>}

\* the sizes rohc_compress may return
CompressSizes == {-1, 0, 5}

\* what rohc_decompress may produce for the packet p that was compressed:
\* the same bytes, a byte changed, a byte missing, a byte more
DecompPackets(p) ==
    LET n == Len(p)
    IN  { q \in { p,
                  [i \in 1 .. n |-> IF i = 1 THEN (p[i] + 1) % 256 ELSE p[i]],
                  [i \in 1 .. n |-> IF i = n THEN (p[i] + 128) % 256 ELSE p[i]],
                  SubSeq(p, 1, n - 1),
                  p \o <<0>> } : Len(q) > 0 }

\* the sizes rohc_decompress may return when it fails
DecompFailSizes == {-1, 0}

-----------------------------------------------------------------------------
(* compress_decompress                                                     *)

\* a variant of the frame check that accepts a frame with no payload
bad_pcap_packet_lt(header, link_len) ==
    header.len < link_len \/ header.len # header.caplen

\* check Ethernet frame length
bad_pcap_packet(header, link_len) ==
    header.len <= link_len \/ header.len # header.caplen

\* ntohs(ip->tot_len): bytes 2-3 of the IPv4 header
ipv4_tot_len(ip_packet, le) ==
    ntohs(LoadU16(At(ip_packet, 2), At(ip_packet, 3), le), le)

\* sizeof(struct ip6_hdr) + ntohs(ip->ip6_plen): bytes 4-5 of the IPv6 header
ipv6_tot_len(ip_packet, le) ==
    IP6_HDR_LEN + ntohs(LoadU16(At(ip_packet, 4), At(ip_packet, 5), le), le)

\* a variant of the padding check that reads the length without ntohs
padded_ip_size_raw(header, ip_packet, link_len, le) ==
    LET ip_size == header.len - link_len
        tot_len == IF (At(ip_packet, 0) \div 16) % 16 = 4
                   THEN LoadU16(At(ip_packet, 2), At(ip_packet, 3), le)
                   ELSE IP6_HDR_LEN + LoadU16(At(ip_packet, 4), At(ip_packet, 5), le)
    IN  IF link_len = ETHER_HDR_LEN /\ header.len = ETHER_FRAME_MIN_LEN
           /\ tot_len < ip_size
        THEN tot_len ELSE ip_size

\* the size of the IP packet once the Ethernet padding is removed
padded_ip_size(header, ip_packet, link_len, le) ==
    LET ip_size == header.len - link_len
        version == (At(ip_packet, 0) \div 16) % 16
        tot_len == IF version = 4 THEN ipv4_tot_len(ip_packet, le)
                   ELSE ipv6_tot_len(ip_packet, le)
    IN  IF link_len = ETHER_HDR_LEN /\ header.len = ETHER_FRAME_MIN_LEN
           /\ tot_len < ip_size
        THEN tot_len ELSE ip_size

\* a variant of the failure tests that accepts a size of 0
engine_failed_neg(size) == size < 0

\* rohc_size <= 0, decomp_size <= 0
engine_failed(size) == size <= 0

\* the state of one run of compress_decompress: the dump table, the dump
\* handles (each with the file it was opened on and what was written through
\* it), the file names on disk, the calls made so far, the traces received,
\* *cid, and how the run ended ("return" with ret, "abort" on assert(0),
\* "crash" when a NULL dump handle is written through)
CdStart(d, h, f) ==
    [dumpers |-> d, handles |-> h, files |-> f, calls |-> <<>>, traces |-> <<>>,
     cid |-> 0, comp_arg |-> <<>>, cmp_arg |-> <<>>, info |-> [none |-> TRUE],
     ret |-> 0, end |-> "return"]

Call(st, op, res) == [st EXCEPT !.calls = Append(@, [op |-> op, res |-> res])]

Traced(st, texts) == [st EXCEPT !.traces = @ \o texts]

\* a variant of pcap_dump_open that keeps what the previous handle of that
\* name wrote, as a file opened for appending would
DumpOpened_append(st, name) ==
    LET hid == Len(st.handles) + 1
        prev == {h \in DOMAIN st.handles : st.handles[h].file = name}
        kept == IF prev = {} THEN <<>>
                ELSE st.handles[CHOOSE h \in prev : \A g \in prev : g <= h].content
    IN  [Call(st, "pcap_dump_open", hid) EXCEPT
            !.handles = Append(@, [file |-> name, open |-> TRUE, content |-> kept]),
            !.files = [@ EXCEPT ![name] = hid]]

\* pcap_dump_open succeeded: a new handle on a new, empty file of that name
DumpOpened(st, name) ==
    LET hid == Len(st.handles) + 1
    IN  [Call(st, "pcap_dump_open", hid) EXCEPT
            !.handles = Append(@, [file |-> name, open |-> TRUE, content |-> <<>>]),
            !.files = [@ EXCEPT ![name] = hid]]

\* a variant of pcap_dump that writes nothing
Dumped_nothing(st, hid, frame) == Call(st, "pcap_dump", hid)

\* pcap_dump on an open handle
Dumped(st, hid, frame) ==
    [Call(st, "pcap_dump", hid) EXCEPT !.handles[hid].content = Append(@, frame)]

\* pcap_dump_close
DumpClosed(st, hid) ==
    [Call(st, "pcap_dump_close", hid) EXCEPT !.handles[hid].open = FALSE]

\* unlink
Unlinked(st, name) ==
    [Call(st, "unlink", name.id) EXCEPT !.files[name] = NULL]

\* compare the decompressed packet with the original one
CdCompare(st, ip_packet, ip_size, decomp_packet) ==
    LET res == compare_packets(ip_packet, ip_size, decomp_packet, Len(decomp_packet))
        st1 == [Call(st, "compare_packets", res.valid) EXCEPT
                   !.cmp_arg = <<ip_packet, ip_size, decomp_packet, Len(decomp_packet)>>]
    IN  {[st1 EXCEPT !.ret = IF res.valid = 0 THEN 0 ELSE 1]}

\* decompress the ROHC packet
CdDecompress(st, ip_packet, ip_size) ==
    UNION { UNION {
        LET st1 == Traced(st, t)
        IN  ( { [Call(st1, "rohc_decompress", size) EXCEPT !.ret = -2]
                  : size \in {s \in DecompFailSizes : engine_failed(s)} }
              \cup UNION { CdCompare(Call(st1, "rohc_decompress", size), ip_packet,
                                     ip_size, [i \in 1 .. size |-> 0])
                  : size \in {s \in DecompFailSizes : ~engine_failed(s)} } )
            \cup UNION { CdCompare(Call(st1, "rohc_decompress", Len(q)), ip_packet,
                                   ip_size, q)
                  : q \in DecompPackets(SubSeq(ip_packet, 1, ip_size)) }
        } : t \in EngineTraces }

\* dump the IP packet in the file of its context, record the CID
CdAppend(st, frame, info, ip_packet, ip_size) ==
    LET hid == st.dumpers[info.context_id]
    IN  IF hid = NULL
        THEN {[Call(st, "pcap_dump", NULL) EXCEPT !.end = "crash"]}
             \cup CdDecompress([Call(st, "pcap_dump", NULL) EXCEPT
                                   !.cid = info.context_id], ip_packet, ip_size)
        ELSE CdDecompress([Dumped(st, hid, frame) EXCEPT !.cid = info.context_id],
                          ip_packet, ip_size)

\* a variant that never closes the previous dumper
previous_dumper_opened_never(old) == FALSE

\* close the previous dumper and remove its file if one was opened
previous_dumper_opened(old) == old # NULL

\* a variant that opens a new dumper for every packet
stream_changed_always(info) == TRUE

\* last_packet_info.is_context_init
stream_changed(info) == info.is_context_init

\* open a new dumper if none exists or the stream changed
CdDump(st, frame, info, ip_packet, ip_size) ==
    IF stream_changed(info)
    THEN LET c == info.context_id
             old == st.dumpers[c]
             st1 == IF previous_dumper_opened(old)
                    THEN Unlinked(DumpClosed(st, old), CidFile(c))
                    ELSE st
         IN  {[Call(st1, "pcap_dump_open", NULL) EXCEPT
                  !.dumpers[c] = NULL, !.end = "abort"]}
             \cup CdAppend([DumpOpened(st1, CidFile(c)) EXCEPT
                               !.dumpers[c] = Len(st1.handles) + 1],
                           frame, info, ip_packet, ip_size)
    ELSE CdAppend(st, frame, info, ip_packet, ip_size)

\* get some statistics about the last compressed packet
CdInfo(st, frame, ip_packet, ip_size) ==
    {[Call(st, "rohc_comp_get_last_packet_info2", "error") EXCEPT !.ret = -4]}
    \cup UNION { CdDump([Call(st, "rohc_comp_get_last_packet_info2", "ok")
                            EXCEPT !.info = info],
                        frame, info, ip_packet, ip_size)
                 : info \in [context_id : 0 .. MaxContexts - 1,
                             is_context_init : BOOLEAN] }

\* the compression failed: dump the frame in the fallback file
CdFallback(st, frame) ==
    {[Call(st, "pcap_dump_open", NULL) EXCEPT !.end = "abort"]}
    \cup { [DumpClosed(Dumped(DumpOpened(st, DefaultFile), Len(st.handles) + 1, frame),
                       Len(st.handles) + 1)
               EXCEPT !.ret = -1] }

\* compress the IP packet
CdCompress(st, frame, ip_packet, ip_size) ==
    UNION { UNION {
        LET st1 == [Call(Traced(st, t), "rohc_compress", size) EXCEPT
                       !.comp_arg = <<ip_packet, ip_size>>]
        IN  IF engine_failed(size)
            THEN CdFallback(st1, frame)
            ELSE CdInfo(st1, frame, ip_packet, ip_size)
        : size \in CompressSizes } : t \in EngineTraces }

\* compress_decompress: every way one run may end, for the frame (header and
\* bytes), the session's link layer, host and dump state
compress_decompress(frame, link_len, le, d, h, f) ==
    IF bad_pcap_packet(frame, link_len)
    THEN {[CdStart(d, h, f) EXCEPT !.ret = -3]}
    ELSE LET ip_packet == SubSeq(frame.data, link_len + 1, frame.len)
         IN  CdCompress(CdStart(d, h, f), frame, ip_packet,
                        padded_ip_size(frame, ip_packet, link_len, le))

-----------------------------------------------------------------------------
(* sniff: the capture loop                                                 *)

\* number of frames the capture source delivers at most when it carries flows
MaxPackets == 2

\* the frames of the flows: two short packets and a frame without payload
FlowFrames(link) ==
    { Frame(link, IpPacket(69, 3, 0, 3), 0),
      Frame(link, IpPacket(96, 0, 0, 2), 0),
      Frame(link, <<>>, 0) }

\* number of packets of the flow of the end-to-end scenario
ScenarioPackets == 3

\* packet n of a UDP flow: an IPv4 header of 20 bytes and a UDP header, the
\* same addresses, protocol and ports in every packet, the IP-ID n
ScenarioPacket(n) == [IpPacket(69, 28, n, 28) EXCEPT ![10] = 17]

ScenarioFrame(link, n) == Frame(link, ScenarioPacket(n), 0)

\* what pcap_next may return: any frame, once, the packets of the scenario
\* ("scenario"), one frame of the flows
\* ("short"), or up to MaxPackets frames of the flows ("flows", "logged")
SourceFrames(t, link, n) ==
    IF t = "any" THEN (IF n < 1 THEN Frames(link) ELSE {})
    ELSE IF t = "scenario"
         THEN (IF n < ScenarioPackets THEN {ScenarioFrame(link, n)} ELSE {})
    ELSE IF t = "short" THEN (IF n < 1 THEN FlowFrames(link) ELSE {})
    ELSE (IF n < MaxPackets THEN FlowFrames(link) ELSE {})

\* the harness variables of the pure functions, unused by the session
NoInput == [none |-> TRUE]

\* the resources of sniff: handle (pcap_open_live), comp
\* (rohc_alloc_compressor), decomp (rohc_alloc_decompressor)
Resources == {"handle", "comp", "decomp"}

\* nothing acquired yet
NoResource == [x \in Resources |-> [acq |-> 0, rel |-> 0]]

\* one resource acquired
Acquired(r, x) == [r EXCEPT ![x].acq = @ + 1]

\* a set of resources released: rohc_free_decompressor, rohc_free_compressor,
\* pcap_close
Released(r, xs) ==
    [x \in Resources |-> IF x \in xs THEN [r[x] EXCEPT !.rel = @ + 1] ELSE r[x]]

\* a variant of the cleanup that releases everything from every label
sniff_cleanup_all(label) == Resources

\* a variant of the cleanup that releases nothing
sniff_cleanup_none(label) == {}

\* the labels at the end of sniff fall through: what a jump to one releases
sniff_cleanup(label) ==
    CASE label = "destroy_decomp" -> {"decomp", "comp", "handle"}
      [] label = "destroy_comp" -> {"comp", "handle"}
      [] label = "close_input" -> {"handle"}
      [] label = "error" -> {}

\* a variant of the statistics that counts the successes only
UpdateStats_ok_only(st, r) ==
    IF r = 1 THEN [st EXCEPT !.nb_ok = @ + 1] ELSE st

\* the statistics once compress_decompress returned r
UpdateStats(st, r) ==
    IF r = -1 THEN [st EXCEPT !.err_comp = @ + 1]
    ELSE IF r = -2 THEN [st EXCEPT !.err_decomp = @ + 1]
    ELSE IF r = 0 THEN [st EXCEPT !.nb_ref = @ + 1]
    ELSE IF r = 1 THEN [st EXCEPT !.nb_ok = @ + 1]
    ELSE IF r = -3 THEN [st EXCEPT !.nb_bad = @ + 1]
    ELSE [st EXCEPT !.nb_internal_err = @ + 1]

\* a variant that goes on after a comparison mismatch
is_problem_neg(r) == r < 0

\* in case of problem, print recorded traces then die
is_problem(r) == r # 1

InitSession(t) ==
    /\ host_le \in BOOLEAN
    /\ pc = "loop"
    /\ stop_program = FALSE
    /\ link_len_src \in LinkLens
    /\ traffic = t
    /\ counter = 0
    /\ cur = NoInput
    /\ ret = 0
    /\ cid = 0
    /\ stats = [nb_ok |-> 0, nb_bad |-> 0, nb_internal_err |-> 0,
                err_comp |-> 0, err_decomp |-> 0, nb_ref |-> 0]
    /\ dumpers = [c \in 0 .. MaxContexts - 1 |-> NULL]
    /\ handles = <<>>
    /\ files = [n \in DumpFileNames |-> NULL]
    /\ calls = <<>>
    /\ comp_arg = <<>>
    /\ cmp_arg = <<>>
    /\ last_packet_info = NoInput
    /\ assigned = <<>>
    /\ resources = Acquired(Acquired(Acquired(NoResource, "handle"), "comp"), "decomp")
    /\ exit_status = "running"

InitTraces ==
    /\ err_out = <<>>
    /\ last_traces = EmptyRing.buf
    /\ last_traces_first = EmptyRing.first
    /\ last_traces_last = EmptyRing.last
    /\ trace_log = <<>>

IdleHarness ==
    /\ cmp_in = NoInput
    /\ cmp_out = NoInput
    /\ rtp_in = NoInput
    /\ rtp_out = NoInput

Init == InitSession("flows") /\ InitTraces /\ IdleHarness

\* the positions of sniff before the loop: before pcap_open_live,
\* pcap_datalink, rohc_alloc_compressor, the configuration of the compressor,
\* rohc_alloc_decompressor, the configuration of the decompressor
SetupPcs == {"open", "datalink", "alloc_comp", "conf_comp", "alloc_decomp", "conf_decomp"}

\* handle_signals: end the program with the next captured packet
HandleSignal ==
    /\ pc \in {"loop", "read", "process"} \cup SetupPcs
    /\ ~stop_program
    /\ stop_program' = TRUE
    /\ UNCHANGED <<host_le, pc, link_len_src, traffic, counter, cur, ret, cid, stats, dumpers,
                   handles, files, calls, comp_arg, cmp_arg, last_packet_info,
                   assigned, resources, exit_status>>
    /\ UNCHANGED <<tracevars, cmpvars, rtpvars>>

\* a variant of the loop that does not look at the stop flag
loop_continues_always(stop) == TRUE

\* !stop_program
loop_continues(stop) == ~stop

\* while(!stop_program && ...): the test of the stop flag
LoopTest ==
    /\ pc = "loop"
    /\ pc' = IF loop_continues(stop_program) THEN "read" ELSE "exit"
    /\ UNCHANGED <<host_le, stop_program, link_len_src, traffic, counter, cur, ret, cid, stats,
                   dumpers, handles, files, calls, comp_arg, cmp_arg, last_packet_info,
                   assigned, resources, exit_status>>
    /\ UNCHANGED <<tracevars, cmpvars, rtpvars>>

\* pcap_next returns a frame: nothing was called for this packet yet
ReadFrame ==
    /\ pc = "read"
    /\ \E f \in SourceFrames(traffic, link_len_src, counter) : cur' = f
    /\ pc' = "process"
    /\ calls' = <<>>
    /\ comp_arg' = <<>>
    /\ cmp_arg' = <<>>
    /\ last_packet_info' = NoInput
    /\ UNCHANGED <<host_le, stop_program, link_len_src, traffic, counter, ret, cid, stats,
                   dumpers, handles, files, assigned, resources, exit_status>>
    /\ UNCHANGED <<tracevars, cmpvars, rtpvars>>

\* pcap_next returns NULL
ReadEnd ==
    /\ pc = "read"
    /\ pc' = "exit"
    /\ UNCHANGED <<host_le, stop_program, link_len_src, traffic, counter, cur, ret, cid, stats,
                   dumpers, handles, files, calls, comp_arg, cmp_arg, last_packet_info,
                   assigned, resources, exit_status>>
    /\ UNCHANGED <<tracevars, cmpvars, rtpvars>>

\* the frames the engine assigned to a context so far, after one more packet:
\* the packets for which rohc_comp_get_last_packet_info2 answered, with the
\* context_id and is_context_init it reported; the log is kept for the
\* "logged" traffic only
Assigned(t, log, info, frame) ==
    IF t # "logged" \/ info = NoInput THEN log
    ELSE Append(log, [context_id |-> info.context_id,
                      is_context_init |-> info.is_context_init,
                      frame |-> frame])

\* the body of the loop: compress_decompress, the statistics and, in case of
\* problem, the statistics line, the traces and assert(0)
ProcessPacket ==
    /\ pc = "process"
    /\ \E r \in compress_decompress(cur, link_len_src, host_le, dumpers, handles, files) :
        LET ring == RecordAll(Ring, r.traces)
        IN  /\ counter' = counter + 1
            /\ dumpers' = r.dumpers
            /\ handles' = r.handles
            /\ files' = r.files
            /\ calls' = r.calls
            /\ comp_arg' = r.comp_arg
            /\ cmp_arg' = r.cmp_arg
            /\ last_packet_info' = r.info
            /\ assigned' = Assigned(traffic, assigned, r.info, cur)
            /\ last_traces' = ring.buf
            /\ last_traces_first' = ring.first
            /\ last_traces_last' = ring.last
            /\ trace_log' = trace_log \o r.traces
            /\ IF r.end = "return"
               THEN /\ ret' = r.ret
                    /\ cid' = r.cid
                    /\ stats' = UpdateStats(stats, r.ret)
                    /\ IF is_problem(r.ret)
                       THEN /\ err_out' = <<StatsLine(counter + 1, r.cid, stats')>>
                                          \o DrainTraces(ring)
                            /\ pc' = "halted"
                            /\ exit_status' = "abort"
                       ELSE /\ err_out' = err_out
                            /\ pc' = "loop"
                            /\ exit_status' = exit_status
               ELSE /\ pc' = IF r.end = "abort" THEN "aborted" ELSE "crashed"
                    /\ exit_status' = IF r.end = "abort" THEN "abort" ELSE exit_status
                    /\ UNCHANGED <<ret, cid, stats, err_out>>
    /\ UNCHANGED <<host_le, stop_program, link_len_src, traffic, cur, resources>>
    /\ UNCHANGED <<cmpvars, rtpvars>>

\* a variant of the closing loop that closes nothing
dumper_to_close_never(dumper) == FALSE

\* dumpers[i] != NULL
dumper_to_close(dumper) == dumper # NULL

\* close PCAP dumpers: for(i = 0; i < max_contexts; i++), with a message on
\* stdout for every dump file closed
RECURSIVE CloseLoop(_, _)
CloseLoop(st, i) ==
    IF i >= MaxContexts THEN st
    ELSE IF dumper_to_close(st.dumpers[i])
         THEN CloseLoop(DumpClosed(Call(st, "printf", i), st.dumpers[i]), i + 1)
         ELSE CloseLoop(st, i + 1)

\* the end of sniff after the loop: close the dumpers, free the compressor,
\* the decompressor and the capture handle
CloseDumpers ==
    /\ pc = "exit"
    /\ LET st == CloseLoop(CdStart(dumpers, handles, files), 0)
       IN  /\ handles' = st.handles
           /\ calls' = st.calls
    /\ resources' = Released(resources, sniff_cleanup("destroy_decomp"))
    /\ exit_status' = "success"
    /\ pc' = "done"
    /\ UNCHANGED <<host_le, stop_program, link_len_src, traffic, counter, cur, ret, cid, stats,
                   dumpers, files, comp_arg, cmp_arg, last_packet_info, assigned>>
    /\ UNCHANGED <<tracevars, cmpvars, rtpvars>>

Next ==
    \/ HandleSignal
    \/ LoopTest
    \/ ReadFrame
    \/ ReadEnd
    \/ ProcessPacket
    \/ CloseDumpers

Spec == Init /\ [][Next]_vars

\* the session of a little-endian host on an Ethernet device, with the log of
\* the frames assigned to the contexts: the same frames and the same steps as
\* Spec
InitDumps ==
    /\ InitSession("logged") /\ InitTraces /\ IdleHarness
    /\ host_le
    /\ link_len_src = ETHER_HDR_LEN

SpecDumps == InitDumps /\ [][Next]_vars

\* the session when only a harness of one function runs
IdleSession ==
    /\ pc = "idle"
    /\ stop_program = FALSE
    /\ link_len_src = 0
    /\ traffic = "none"
    /\ counter = 0
    /\ cur = NoInput
    /\ ret = 0
    /\ cid = 0
    /\ stats = [nb_ok |-> 0, nb_bad |-> 0, nb_internal_err |-> 0,
                err_comp |-> 0, err_decomp |-> 0, nb_ref |-> 0]
    /\ dumpers = [c \in 0 .. MaxContexts - 1 |-> NULL]
    /\ handles = <<>>
    /\ files = [n \in DumpFileNames |-> NULL]
    /\ calls = <<>>
    /\ comp_arg = <<>>
    /\ cmp_arg = <<>>
    /\ last_packet_info = NoInput
    /\ assigned = <<>>
    /\ resources = NoResource
    /\ exit_status = "running"

\* the session fed with one frame of any shape
InitPipeline == InitSession("any") /\ InitTraces /\ IdleHarness

SpecPipeline == InitPipeline /\ [][Next]_vars

-----------------------------------------------------------------------------
(* The session fed with one UDP flow that the compressor keeps in context 0 *)

\* the answers of the scenario: the metadata is obtained, the context is 0,
\* it is newly initialized for the first packet only, and its dump file
\* could be opened
EngineFollowsScenario ==
    /\ last_packet_info = [context_id |-> 0, is_context_init |-> (counter = 1)]
    /\ pc # "aborted"

ProcessScenarioPacket == ProcessPacket /\ EngineFollowsScenario'

InitScenario == InitSession("scenario") /\ InitTraces /\ IdleHarness

NextScenario ==
    \/ HandleSignal
    \/ LoopTest
    \/ ReadFrame
    \/ ReadEnd
    \/ ProcessScenarioPacket
    \/ CloseDumpers

SpecScenario == InitScenario /\ [][NextScenario]_vars

-----------------------------------------------------------------------------
(* sniff: from its first statement to the loop                             *)

\* the link layer types pcap_datalink may report, three of them supported
LinkTypes == {"DLT_EN10MB", "DLT_LINUX_SLL", "DLT_RAW", "DLT_NULL", "DLT_IEEE802_11"}

\* link_len_src for a supported link layer type
link_len_of(type) ==
    IF type = "DLT_EN10MB" THEN ETHER_HDR_LEN
    ELSE IF type = "DLT_LINUX_SLL" THEN LINUX_COOKED_HDR_LEN
    ELSE 0

link_type_supported(type) == type \in {"DLT_EN10MB", "DLT_LINUX_SLL", "DLT_RAW"}

\* the steps of the configuration of the compressor whose result is checked
CompConfigSteps ==
    {"rohc_comp_set_traces_cb", "rohc_comp_set_random_cb",
     "rohc_comp_reset_rtp_ports", "rohc_comp_set_rtp_detection_cb"}

\* the steps of the configuration of the decompressor whose result is checked
DecompConfigSteps ==
    {"rohc_decomp_set_traces_cb", "rohc_decomp_set_cid_type", "rohc_decomp_set_max_cid"}

\* goto label: the labels release what they release, sniff returns status
\* (still false) and main returns 1
SetupFails(label) ==
    /\ resources' = Released(resources, sniff_cleanup(label))
    /\ exit_status' = "failure"
    /\ pc' = "failed"

\* one step of the setup succeeded
SetupGoes(acquired, to) ==
    /\ resources' = IF acquired = "nothing" THEN resources
                    ELSE Acquired(resources, acquired)
    /\ exit_status' = exit_status
    /\ pc' = to

\* what the setup leaves alone
SetupFrame ==
    /\ UNCHANGED <<host_le, stop_program, traffic, counter, cur, ret, cid, stats,
                   dumpers, handles, files, calls, comp_arg, cmp_arg, last_packet_info,
                   assigned>>
    /\ UNCHANGED <<tracevars, cmpvars, rtpvars>>

\* open the network device
OpenDevice ==
    /\ pc = "open"
    /\ \/ SetupGoes("handle", "datalink")
       \/ SetupFails("error")
    /\ UNCHANGED link_len_src
    /\ SetupFrame

\* the link layer of the source must be Ethernet, Linux cooked or raw
Datalink ==
    /\ pc = "datalink"
    /\ \E type \in LinkTypes :
        IF link_type_supported(type)
        THEN /\ link_len_src' = link_len_of(type)
             /\ SetupGoes("nothing", "alloc_comp")
        ELSE /\ link_len_src' = link_len_src
             /\ SetupFails("close_input")
    /\ SetupFrame

\* create the ROHC compressor
AllocComp ==
    /\ pc = "alloc_comp"
    /\ \/ SetupGoes("comp", "conf_comp")
       \/ SetupFails("close_input")
    /\ UNCHANGED link_len_src
    /\ SetupFrame

\* the callbacks, the profiles, the CID type and the RTP ports of the
\* compressor
ConfigureComp ==
    /\ pc = "conf_comp"
    /\ \/ SetupGoes("nothing", "alloc_decomp")
       \/ \E failed \in CompConfigSteps : SetupFails("destroy_comp")
    /\ UNCHANGED link_len_src
    /\ SetupFrame

\* create the decompressor
AllocDecomp ==
    /\ pc = "alloc_decomp"
    /\ \/ SetupGoes("decomp", "conf_decomp")
       \/ SetupFails("destroy_comp")
    /\ UNCHANGED link_len_src
    /\ SetupFrame

\* the callback, the CID type and MAX_CID of the decompressor; then the dump
\* table is reset, counter = 0 and the loop starts
ConfigureDecomp ==
    /\ pc = "conf_decomp"
    /\ \/ SetupGoes("nothing", "loop")
       \/ \E failed \in DecompConfigSteps : SetupFails("destroy_decomp")
    /\ UNCHANGED link_len_src
    /\ SetupFrame

\* sniff is called: nothing is acquired, the dump table and link_len_src are
\* not read before they are assigned
InitSetup ==
    /\ host_le \in BOOLEAN
    /\ pc = "open"
    /\ stop_program = FALSE
    /\ link_len_src = 0
    /\ traffic = "short"
    /\ counter = 0
    /\ cur = NoInput
    /\ ret = 0
    /\ cid = 0
    /\ stats = [nb_ok |-> 0, nb_bad |-> 0, nb_internal_err |-> 0,
                err_comp |-> 0, err_decomp |-> 0, nb_ref |-> 0]
    /\ dumpers = [c \in 0 .. MaxContexts - 1 |-> NULL]
    /\ handles = <<>>
    /\ files = [n \in DumpFileNames |-> NULL]
    /\ calls = <<>>
    /\ comp_arg = <<>>
    /\ cmp_arg = <<>>
    /\ last_packet_info = NoInput
    /\ assigned = <<>>
    /\ resources = NoResource
    /\ exit_status = "running"
    /\ InitTraces
    /\ IdleHarness

NextSetup ==
    \/ OpenDevice
    \/ Datalink
    \/ AllocComp
    \/ ConfigureComp
    \/ AllocDecomp
    \/ ConfigureDecomp
    \/ HandleSignal
    \/ LoopTest
    \/ ReadFrame
    \/ ReadEnd
    \/ ProcessPacket
    \/ CloseDumpers

SpecSetup == InitSetup /\ [][NextSetup]_vars

-----------------------------------------------------------------------------
(* compare_packets applied to pairs of packets                             *)

\* the short packets are 0 to MaxSmallSize bytes long
MaxSmallSize == 5

\* the long packets are up to MaxOver bytes longer than what is printed
MaxOver == 2

CmpSizes == (0 .. MaxSmallSize) \cup (CMP_MAX_BYTES - 1 .. CMP_MAX_BYTES + MaxOver)

\* the offsets at which the second packet may differ from the first
DiffOffsets ==
    {0, 2, MaxSmallSize - 1, CMP_MAX_BYTES - 2, CMP_MAX_BYTES - 1,
     CMP_MAX_BYTES, CMP_MAX_BYTES + MaxOver - 1}

\* a packet of n bytes, changed at the offsets of d
Packet(n, d) ==
    [i \in 1 .. n |-> IF (i - 1) \in d THEN (i * 7 + 1) % 256 ELSE (i * 7) % 256]

CompareInputs ==
    { [pkt1 |-> Packet(n1, {}), pkt2 |-> Packet(n2, d)] :
        n1 \in CmpSizes, n2 \in CmpSizes,
        d \in {x \in SUBSET DiffOffsets : Cardinality(x) <= 2} }

InitCompare ==
    /\ IdleSession /\ host_le = TRUE /\ InitTraces
    /\ cmp_in \in CompareInputs
    /\ cmp_out = NoInput
    /\ rtp_in = NoInput
    /\ rtp_out = NoInput

ComparePackets ==
    /\ cmp_in # NoInput
    /\ cmp_out = NoInput
    /\ cmp_out' = compare_packets(cmp_in.pkt1, Len(cmp_in.pkt1),
                                  cmp_in.pkt2, Len(cmp_in.pkt2))
    /\ UNCHANGED <<sessvars, tracevars, cmp_in, rtpvars>>

SpecCompare == InitCompare /\ [][ComparePackets]_vars

-----------------------------------------------------------------------------
(* rtp_detect_cb applied to UDP packets                                    *)

RtpPorts == {5060, 5061, 5062, 5063, 4097, 256, 258}

RtpPayloadSizes == {11, 12, 20, 192, 193, 200, 201}

\* a UDP header (ports and length in network byte order) and the payload;
\* the UDP length is the one of the payload, or another one
RtpInputs ==
    { [udp |-> <<sport \div 256, sport % 256, dport \div 256, dport % 256,
                 len \div 256, len % 256>>,
       payload |-> <<b0, b1>>,
       payload_size |-> n] :
        sport \in {5060, 1234}, dport \in RtpPorts,
        len \in {100} \cup {m + 8 : m \in RtpPayloadSizes},
        n \in RtpPayloadSizes,
        b0 \in {128, 191, 64, 192, 0},
        b1 \in {3, 4, 18, 101, 131, 5, 229} }

InitRtp ==
    /\ IdleSession /\ host_le \in BOOLEAN /\ InitTraces
    /\ cmp_in = NoInput
    /\ cmp_out = NoInput
    /\ rtp_in \in { i \in RtpInputs :
                       LET len == 256 * i.udp[5] + i.udp[6]
                       IN  len = 100 \/ len = i.payload_size + 8 }
    /\ rtp_out = NoInput

RtpDetect ==
    /\ rtp_in # NoInput
    /\ rtp_out = NoInput
    /\ rtp_out' = [is_rtp |-> rtp_detect_cb(rtp_in.udp, rtp_in.payload,
                                            rtp_in.payload_size, host_le)]
    /\ UNCHANGED <<sessvars, tracevars, cmpvars, rtp_in>>

SpecRtp == InitRtp /\ [][RtpDetect]_vars

-----------------------------------------------------------------------------
(* print_rohc_traces called any number of times, then the drain            *)

\* number of traces recorded at most
MaxTraces == 7

InitTrace ==
    /\ IdleSession /\ host_le = TRUE /\ InitTraces /\ IdleHarness

\* the library emits a trace
TracePrint ==
    /\ pc = "idle"
    /\ Len(trace_log) < MaxTraces
    /\ \E text \in TraceTexts :
        LET ring == print_rohc_traces(Ring, text)
        IN  /\ last_traces' = ring.buf
            /\ last_traces_first' = ring.first
            /\ last_traces_last' = ring.last
            /\ trace_log' = Append(trace_log, text)
    /\ UNCHANGED <<sessvars, err_out, cmpvars, rtpvars>>

\* a packet fails: sniff prints the statistics line and the traces, and dies
TraceFail ==
    /\ pc = "idle"
    /\ err_out' = <<StatsLine(counter, cid, stats)>> \o DrainTraces(Ring)
    /\ pc' = "halted"
    /\ UNCHANGED <<host_le, stop_program, link_len_src, traffic, counter, cur, ret, cid,
                   stats, dumpers, handles, files, calls, comp_arg, cmp_arg, last_packet_info,
                   assigned, resources, exit_status>>
    /\ UNCHANGED <<last_traces, last_traces_first, last_traces_last, trace_log>>
    /\ UNCHANGED <<cmpvars, rtpvars>>

NextTrace == TracePrint \/ TraceFail

SpecTrace == InitTrace /\ [][NextTrace]_vars

-----------------------------------------------------------------------------
(* Properties                                                              *)

\* the frame in hand fails the check of its lengths
MalformedFrame == cur.len <= link_len_src \/ cur.len # cur.caplen

\* a step of ProcessPacket: sniff leaves "process"
Processed == pc = "process" /\ pc' # "process"

\* C1: for a frame whose declared length is at most the link layer header
\* length, or differs from its captured length, compress_decompress returns
\* -3 and calls nothing: no compressor, no last-packet-info query, no
\* decompressor, no dump file opened, closed or written, dump table unchanged
C1_MalformedNoEngine ==
    [][(Processed /\ MalformedFrame) =>
           /\ ret' = -3
           /\ pc' = "halted"
           /\ calls' = <<>>
           /\ comp_arg' = <<>>
           /\ cmp_arg' = <<>>
           /\ UNCHANGED <<dumpers, handles, files>>]_vars

\* a truncated capture was processed and reported as malformed
C1_Witness ==
    /\ pc = "halted"
    /\ cur # NoInput
    /\ cur.caplen < cur.len
    /\ ret = -3

\* the number of packets counted as failures
Failures ==
    stats.err_comp + stats.err_decomp + stats.nb_ref + stats.nb_bad
    + stats.nb_internal_err

\* C2: as soon as one packet had an outcome other than Success, sniff has
\* printed the statistics line and the traces of the ring on stderr and is
\* halted: that packet is the last one read and the only failure, every
\* packet before it was a success
C2_HaltOnFirstFailure ==
    /\ Failures > 0 =>
           /\ pc = "halted"
           /\ Failures = 1
           /\ ret # 1
           /\ stats.nb_ok = counter - 1
           /\ err_out = <<StatsLine(counter, cid, stats)>> \o DrainTraces(Ring)
    /\ pc = "halted" => Failures = 1
    /\ pc \in {"loop", "read", "process", "exit", "done"} => err_out = <<>>

\* the second packet did not match after a first success
C2_Witness ==
    /\ pc = "halted"
    /\ ret = 0
    /\ counter = 2
    /\ stats.nb_ok = 1
    /\ Len(err_out) > 1

\* the steps of the pipeline among the calls cs, in the order they were made
PipelineSteps(cs) ==
    SelectSeq(cs, LAMBDA c : c.op \in {"rohc_compress", "rohc_comp_get_last_packet_info2",
                                       "rohc_decompress", "compare_packets"})

\* whether a step of the pipeline succeeded
StepPassed(c) ==
    CASE c.op = "rohc_compress" -> c.res > 0
      [] c.op = "rohc_comp_get_last_packet_info2" -> c.res = "ok"
      [] c.op = "rohc_decompress" -> c.res > 0
      [] OTHER -> TRUE

\* the steps were made in the fixed order, each at most once, none after a
\* step that failed, and the dump files of the contexts were touched only
\* between the info query and the decompression
StepsInOrder(cs) ==
    LET steps == PipelineSteps(cs)
        order == <<"rohc_compress", "rohc_comp_get_last_packet_info2",
                   "rohc_decompress", "compare_packets">>
    IN  /\ Len(steps) \in 1 .. 4
        /\ \A i \in 1 .. Len(steps) : steps[i].op = order[i]
        /\ \A i \in 1 .. Len(steps) - 1 : StepPassed(steps[i])
        /\ cs[1].op = "rohc_compress"
        /\ \A i \in 1 .. Len(cs) :
               cs[i].op \in {"pcap_dump_open", "pcap_dump", "pcap_dump_close", "unlink"} =>
                   \/ /\ ~StepPassed(cs[1])
                      /\ Len(steps) = 1
                   \/ /\ \E j \in 1 .. i - 1 : cs[j].op = "rohc_comp_get_last_packet_info2"
                      /\ \A j \in 1 .. i - 1 : cs[j].op # "rohc_decompress"

\* the outcome the claim gives for the calls cs: decided by the first step
\* that failed; payload is what was given to rohc_compress, decomp what
\* rohc_decompress produced; 99 when no outcome is decided yet
ClaimedOutcome(cs, payload, decomp) ==
    LET steps == PipelineSteps(cs)
        n == Len(steps)
    IN  IF n >= 1 /\ ~StepPassed(steps[1]) THEN -1
        ELSE IF n >= 2 /\ ~StepPassed(steps[2]) THEN -4
        ELSE IF n >= 3 /\ ~StepPassed(steps[3]) THEN -2
        ELSE IF n >= 4 THEN (IF decomp # payload THEN 0 ELSE 1)
        ELSE 99

\* the outcome the claim gives for the packet just processed
ClaimedOutcomeNow ==
    ClaimedOutcome(calls',
                   IF comp_arg' = <<>> THEN <<>>
                   ELSE SubSeq(comp_arg'[1], 1, comp_arg'[2]),
                   IF cmp_arg' = <<>> THEN <<>> ELSE cmp_arg'[3])

\* C3 as stated: every well-formed frame yields one outcome, the one of the
\* first failing step in the order compress, last-packet-info, dump,
\* decompress, compare, and no step is made after a failed one
C3_Original ==
    [][(Processed /\ ~MalformedFrame) =>
           /\ pc' \in {"loop", "halted"}
           /\ StepsInOrder(calls')
           /\ ret' = ClaimedOutcomeNow]_vars

\* C3 amended: a well-formed frame yields that outcome unless the process
\* dies inside compress_decompress, which happens exactly when a dump file
\* (the fallback one after a failed compression, the one of a new context)
\* cannot be opened (assert(0)), or possibly when the frame is written
\* through the NULL handle of a context that has no dump file; in every
\* case no step is made after a failed one
C3_OutcomeOrAbort ==
    [][(Processed /\ ~MalformedFrame) =>
           LET cs == calls'
               last == cs[Len(cs)]
           IN  /\ StepsInOrder(cs)
               /\ IF last.op = "pcap_dump_open" /\ last.res = NULL
                  THEN pc' = "aborted"
                  ELSE IF last.op = "pcap_dump" /\ last.res = NULL
                  THEN pc' = "crashed"
                  ELSE /\ pc' \in {"loop", "halted"}
                       /\ ret' = ClaimedOutcomeNow
                       /\ ret' \in {-1, -4, -2, 0, 1}]_vars

\* a well-formed frame was compressed and recorded, then failed to decompress
C3_Witness ==
    /\ pc = "halted"
    /\ cur # NoInput
    /\ ~MalformedFrame
    /\ ret = -2
    /\ Len(PipelineSteps(calls)) = 3
    /\ \E i \in 1 .. Len(calls) : calls[i].op = "pcap_dump"

\* the traces printed by the drain, in the order they were printed
DrainedTraces ==
    LET printed == SelectSeq(err_out, LAMBDA l : "trace" \in DOMAIN l)
    IN  [i \in 1 .. Len(printed) |-> printed[i].trace]

\* the last n traces recorded, oldest first, as a slot keeps them
LastRecorded(n) ==
    [i \in 1 .. n |->
        LET text == trace_log[Len(trace_log) - n + i]
        IN  SubSeq(text, 1, IF Len(text) < MAX_TRACE_LEN THEN Len(text) ELSE MAX_TRACE_LEN)]

\* C4: once K >= 1 traces were recorded in the ring of N slots, the drain
\* prints the last min(K, N) of them, each once, oldest first
C4_DrainLastInOrder ==
    (pc = "halted" /\ Len(trace_log) >= 1) =>
        DrainedTraces =
            LastRecorded(IF Len(trace_log) < MAX_LAST_TRACES
                         THEN Len(trace_log) ELSE MAX_LAST_TRACES)

\* the drain of a ring that wrapped: N + 1 traces recorded, the oldest
\* cursor after the newest one
C4_Witness ==
    /\ pc = "halted"
    /\ Len(trace_log) = MAX_LAST_TRACES + 1
    /\ last_traces_first > last_traces_last
    /\ Len(DrainedTraces) = MAX_LAST_TRACES

\* the two packets have the same length and the same byte at every offset
SamePackets(a, b) ==
    /\ Len(a) = Len(b)
    /\ \A i \in 1 .. Len(a) : a[i] = b[i]

\* compare_packets printed nothing
NoCompareOutput ==
    /\ ~cmp_out.banner
    /\ cmp_out.sizes = <<>>
    /\ cmp_out.rows = <<>>

\* C5: compare_packets reports equal exactly when the two packets have the
\* same length and the same bytes over their whole length; it prints
\* nothing when it reports equal, and reports not-equal otherwise
C5_EqualIffSameBytes ==
    cmp_out # NoInput =>
        /\ cmp_out.valid \in {0, 1}
        /\ (cmp_out.valid = 1) <=> SamePackets(cmp_in.pkt1, cmp_in.pkt2)
        /\ (cmp_out.valid = 1) => NoCompareOutput
        /\ (cmp_out.valid = 0) => cmp_out.banner

\* two packets of the same length that differ only after the 180 bytes
\* printed were compared and reported as different
C5_Witness ==
    /\ cmp_out # NoInput
    /\ Len(cmp_in.pkt1) = Len(cmp_in.pkt2)
    /\ Len(cmp_in.pkt1) > 180
    /\ \A i \in 1 .. 180 : cmp_in.pkt1[i] = cmp_in.pkt2[i]
    /\ cmp_in.pkt1[181] # cmp_in.pkt2[181]
    /\ cmp_out.valid = 0

\* the cell of the byte at offset i exists in the output and both columns
\* show it between '#'
MarkedAsDiffering(i) ==
    LET r == (i \div 4) + 1
        k == (i % 4) + 1
    IN  /\ r <= Len(cmp_out.rows)
        /\ k <= Len(cmp_out.rows[r].new)
        /\ cmp_out.rows[r].ref[k][1] = "#" /\ cmp_out.rows[r].ref[k][6] = "#"
        /\ cmp_out.rows[r].new[k][1] = "#" /\ cmp_out.rows[r].new[k][6] = "#"

\* the byte at offset i is shown, with its value, in both columns
ShownAt(i) ==
    LET r == (i \div 4) + 1
        k == (i % 4) + 1
    IN  /\ r <= Len(cmp_out.rows)
        /\ k <= Len(cmp_out.rows[r].new)
        /\ SubSeq(cmp_out.rows[r].ref[k], 2, 5) =
               <<"0", "x", HexDigit(cmp_in.pkt1[i + 1] \div 16),
                 HexDigit(cmp_in.pkt1[i + 1] % 16)>>
        /\ SubSeq(cmp_out.rows[r].new[k], 2, 5) =
               <<"0", "x", HexDigit(cmp_in.pkt2[i + 1] \div 16),
                 HexDigit(cmp_in.pkt2[i + 1] % 16)>>

\* the offsets both packets have
CommonOffsets ==
    0 .. (IF Len(cmp_in.pkt1) < Len(cmp_in.pkt2)
          THEN Len(cmp_in.pkt1) ELSE Len(cmp_in.pkt2)) - 1

\* C6 as stated: when the packets differ, every offset at which their bytes
\* differ is marked in the output
C6_Original ==
    (cmp_out # NoInput /\ ~SamePackets(cmp_in.pkt1, cmp_in.pkt2)) =>
        \A i \in CommonOffsets :
            cmp_in.pkt1[i + 1] # cmp_in.pkt2[i + 1] => MarkedAsDiffering(i)

\* C6 amended: when the packets differ, the output shows the first
\* min(180, lenP, lenP') bytes of both and marks among them exactly the
\* offsets at which the bytes differ; an offset from 180 on is not shown
C6_MarkedWithinPrinted ==
    (cmp_out # NoInput /\ ~SamePackets(cmp_in.pkt1, cmp_in.pkt2)) =>
        \A i \in CommonOffsets :
            IF i < 180
            THEN /\ ShownAt(i)
                 /\ MarkedAsDiffering(i) <=> cmp_in.pkt1[i + 1] # cmp_in.pkt2[i + 1]
            ELSE ~MarkedAsDiffering(i) /\ ~ShownAt(i)

\* two packets that differ at the last offset printed and at the first
\* offset not printed were compared
C6_Witness ==
    /\ cmp_out # NoInput
    /\ Len(cmp_in.pkt1) > 180
    /\ Len(cmp_in.pkt2) > 180
    /\ cmp_in.pkt1[180] # cmp_in.pkt2[180]
    /\ cmp_in.pkt1[181] # cmp_in.pkt2[181]
    /\ MarkedAsDiffering(179)

\* the fields of the UDP header given to rtp_detect_cb, decoded from their
\* two bytes in network byte order
UdpSourcePort == 256 * rtp_in.udp[1] + rtp_in.udp[2]
UdpDestPort == 256 * rtp_in.udp[3] + rtp_in.udp[4]
UdpLength == 256 * rtp_in.udp[5] + rtp_in.udp[6]

\* the packet of the example: destination port 5061, 20 bytes of payload
\* starting with 0x80 0x03, source port other than 5060
ExamplePacket5061 ==
    /\ rtp_out # NoInput
    /\ UdpDestPort = 5061
    /\ UdpSourcePort # 5060
    /\ rtp_in.payload_size = 20
    /\ rtp_in.payload[1] = 128
    /\ rtp_in.payload[2] = 3

\* C7 as stated: the packet of the example is classified as RTP
C7_Original == ExamplePacket5061 => rtp_out.is_rtp

\* C7 amended: the packet of the example, whose destination port 5061 is
\* odd, is classified as not RTP, on little-endian and big-endian hosts
C7_Port5061NotRtp == ExamplePacket5061 => ~rtp_out.is_rtp

\* the packet of the example was classified on a little-endian host, with
\* the UDP length of its payload
C7_Witness ==
    /\ ExamplePacket5061
    /\ host_le
    /\ UdpLength = 28
    /\ ~rtp_out.is_rtp

\* C8: a packet whose destination port is odd is never classified as RTP
C8_OddPortNotRtp ==
    (rtp_out # NoInput /\ UdpDestPort % 2 = 1) => ~rtp_out.is_rtp

\* the six rules of the classifier, on the decoded fields
SixRulesPass ==
    /\ ~(UdpSourcePort = 5060 /\ UdpDestPort = 5060)
    /\ UdpDestPort % 2 = 0
    /\ rtp_in.payload_size <= 200
    /\ rtp_in.payload_size >= 12
    /\ rtp_in.payload[1] \div 64 = 2
    /\ (rtp_in.payload[2] % 128) \in {3, 4, 18, 101}

\* C9: rtp_detect_cb returns true exactly when the six rules pass, the third
\* one being on the size of the payload
C9_TrueIffSixRules ==
    rtp_out # NoInput => (rtp_out.is_rtp <=> SixRulesPass)

\* byte i of the IP packet of the frame in hand, after the link layer
IpByte(i) == cur.data[link_len_src + i + 1]

\* the IP version of the frame in hand
IpVersion == IpByte(0) \div 16

\* the length the IP header of the frame in hand declares: the IPv4 total
\* length, or 40 plus the IPv6 payload length
DeclaredIpLength ==
    IF IpVersion = 4 THEN 256 * IpByte(2) + IpByte(3)
    ELSE 40 + 256 * IpByte(4) + IpByte(5)

\* C10: the size given to the compressor is min(len - 14, T) for an IPv4 or
\* IPv6 packet in an Ethernet frame of exactly 60 bytes, and len - link
\* header length in every other case; it never exceeds the payload that was
\* captured, and the comparison uses the same packet and the same size
C10_PayloadSize ==
    comp_arg # <<>> =>
        /\ (link_len_src = 14 /\ cur.len = 60 /\ IpVersion \in {4, 6}) =>
               comp_arg[2] = (IF cur.len - 14 < DeclaredIpLength
                              THEN cur.len - 14 ELSE DeclaredIpLength)
        /\ (link_len_src # 14 \/ cur.len # 60) =>
               comp_arg[2] = cur.len - link_len_src
        /\ comp_arg[2] <= cur.caplen - link_len_src
        /\ comp_arg[1] = SubSeq(cur.data, link_len_src + 1, cur.len)
        /\ cmp_arg # <<>> =>
               (cmp_arg[1] = comp_arg[1] /\ cmp_arg[2] = comp_arg[2])

\* an Ethernet frame of 60 bytes with an IPv4 packet of 28 bytes was
\* compressed on 28 bytes and compared on 28 bytes
C10_Witness ==
    /\ comp_arg # <<>>
    /\ cmp_arg # <<>>
    /\ link_len_src = 14
    /\ cur.len = 60
    /\ IpVersion = 4
    /\ DeclaredIpLength = 28
    /\ comp_arg[2] = 28
    /\ cmp_arg[2] = 28

-----------------------------------------------------------------------------
\* the dump handles opened on the file of context c
HandlesOf(c) == {h \in DOMAIN handles : handles[h].file = CidFile(c)}

\* the dump handles of context c that are open
OpenHandlesOf(c) == {h \in HandlesOf(c) : handles[h].open}

\* every open handle of a context is the entry of the table for it, and the
\* file on disk of that name is the one it writes
OpenHandlesAreCurrent ==
    \A c \in DOMAIN dumpers :
        /\ Cardinality(OpenHandlesOf(c)) <= 1
        /\ \A h \in OpenHandlesOf(c) : dumpers[c] = h /\ files[CidFile(c)] = h

\* position i of the calls of the packet starts the replacement of handle old
\* of context c: close, unlink, open, in that order
ReplacementAt(cs, i, old, c) ==
    /\ i + 2 <= Len(cs)
    /\ cs[i] = [op |-> "pcap_dump_close", res |-> old]
    /\ cs[i + 1] = [op |-> "unlink", res |-> c]
    /\ cs[i + 2].op = "pcap_dump_open"

\* C11: at most one dump handle is open per context, an open handle of a
\* context is always the table's entry for it, and when a packet changes the
\* entry of a context that had a handle, the old handle was closed and its
\* file deleted before the new one was opened and stored
C11_OneOpenHandlePerContext ==
    /\ []OpenHandlesAreCurrent
    /\ [][\A c \in DOMAIN dumpers :
            (dumpers[c] # NULL /\ dumpers'[c] # dumpers[c]) =>
                /\ ~handles'[dumpers[c]].open
                /\ \E i \in DOMAIN calls' :
                    /\ ReplacementAt(calls', i, dumpers[c], c)
                    /\ calls'[i + 2].res = dumpers'[c]
                    /\ \A j \in DOMAIN calls' :
                        calls'[j].op = "pcap_dump_open" => j = i + 2]_vars

\* a context was initialized twice: its first handle is closed, its second
\* one is open and in the table
C11_Witness ==
    /\ pc = "loop"
    /\ \E c \in DOMAIN dumpers :
        \E h1 \in HandlesOf(c), h2 \in HandlesOf(c) :
            /\ h1 < h2
            /\ ~handles[h1].open
            /\ handles[h2].open
            /\ dumpers[c] = h2
            /\ \E i \in DOMAIN calls : ReplacementAt(calls, i, h1, c)
-----------------------------------------------------------------------------
\* the positions, in the calls cs of one packet, of the calls of op
CallsOf(cs, op) == {i \in DOMAIN cs : cs[i].op = op}

\* the calls that change the dump table or a dump file's existence
TableMutations(cs) ==
    CallsOf(cs, "pcap_dump_open") \cup CallsOf(cs, "pcap_dump_close")
    \cup CallsOf(cs, "unlink")

\* in the state after a packet, with frame its frame: the frame was written
\* once, through the open handle of the reported context, as the last frame
\* of that context's file, after every change of the table and before the
\* decompressor was called
AppendedToContext(cs, info, frame, d, h) ==
    LET hid == d[info.context_id]
    IN  /\ hid # NULL
        /\ h[hid].file = CidFile(info.context_id)
        /\ h[hid].content # <<>>
        /\ h[hid].content[Len(h[hid].content)] = frame
        /\ \E j \in DOMAIN cs :
            /\ CallsOf(cs, "pcap_dump") = {j}
            /\ cs[j].res = hid
            /\ \A i \in TableMutations(cs) : i < j
            /\ \A i \in CallsOf(cs, "rohc_decompress") : j < i

\* C12: every frame for which compression succeeded and the metadata was
\* obtained is appended, link layer included, to the dump file of the
\* reported context, after any change of the table and before the
\* decompressor is called; a session halted on a decompression failure or a
\* mismatch has the failing frame as the last frame of its context's file
C12_AppendedBeforeDecompress ==
    [][(pc = "process" /\ last_packet_info' # NoInput) =>
          /\ AppendedToContext(calls', last_packet_info', cur, dumpers', handles')
          /\ (pc' = "halted" /\ ret' \in {-2, 0}) =>
                 /\ cid' = last_packet_info'.context_id
                 /\ handles'[dumpers'[cid']].open]_vars
-----------------------------------------------------------------------------
\* the compressor was called for the packet and returned a non-positive size
CompressFailed(cs) == cs # <<>> /\ cs[1].op = "rohc_compress" /\ cs[1].res <= 0

\* between states (d, h, f) and (d2, h2, f2) the dump table, the handles of
\* the contexts and the files of the contexts are the same
ContextDumpsUnchanged(d, h, f, d2, h2, f2) ==
    /\ d2 = d
    /\ \A i \in DOMAIN h : h2[i] = h[i]
    /\ \A c \in DOMAIN d : f2[CidFile(c)] = f[CidFile(c)]

\* the frame was written to the fallback file, which was closed
FallbackWritten(cs, frame, h, h2) ==
    LET hid == Len(h) + 1
    IN  /\ Len(h2) = hid
        /\ h2[hid] = [file |-> DefaultFile, open |-> FALSE, content |-> <<frame>>]
        /\ cs = <<cs[1],
                  [op |-> "pcap_dump_open", res |-> hid],
                  [op |-> "pcap_dump", res |-> hid],
                  [op |-> "pcap_dump_close", res |-> hid]>>

\* the fallback file could not be opened: nothing was written, the process
\* was aborted by assert(0) with no outcome
FallbackAborted(cs, h, h2) ==
    /\ h2 = h
    /\ cs = <<cs[1], [op |-> "pcap_dump_open", res |-> NULL]>>

\* C13, as stated: when the compressor returns a non-positive size the frame
\* is written to the fallback file, the file is closed, the outcome is -1,
\* neither the metadata nor the decompressor is called and the table and
\* files of the contexts are unchanged
C13_Original ==
    [][(pc = "process" /\ CompressFailed(calls')) =>
          /\ FallbackWritten(calls', cur, handles, handles')
          /\ pc' = "halted" /\ ret' = -1
          /\ ContextDumpsUnchanged(dumpers, handles, files, dumpers', handles', files')]_vars

\* C13, amended: the same unless the fallback file cannot be opened, in which
\* case nothing is written, the process aborts and no outcome is returned;
\* in both cases the table and the files of the contexts are unchanged and
\* neither the metadata nor the decompressor is called
C13_FallbackOrAbort ==
    [][(pc = "process" /\ CompressFailed(calls')) =>
          /\ \/ /\ FallbackWritten(calls', cur, handles, handles')
                /\ pc' = "halted" /\ ret' = -1
                /\ stats'.err_comp = stats.err_comp + 1
             \/ /\ FallbackAborted(calls', handles, handles')
                /\ pc' = "aborted" /\ ret' = ret /\ stats' = stats
          /\ ContextDumpsUnchanged(dumpers, handles, files, dumpers', handles', files')
          /\ last_packet_info' = NoInput]_vars

\* the compression of the second packet failed while a context had a dump
\* file: the frame is in the fallback file and the session halted on -1
C13_Witness ==
    /\ pc = "halted" /\ ret = -1
    /\ CompressFailed(calls)
    /\ \E c \in DOMAIN dumpers : dumpers[c] # NULL /\ handles[dumpers[c]].open
    /\ handles[Len(handles)] = [file |-> DefaultFile, open |-> FALSE, content |-> <<cur>>]
-----------------------------------------------------------------------------
\* the numbers of packets a session may have processed
PacketCounts == 0 .. MaxPackets + ScenarioPackets

\* C14: whenever the stop flag is set, at most one more packet completes its
\* processing; once the flag is seen set at the top of the loop, no frame is
\* read or processed any more and the next step of sniff leaves the loop for
\* the closing of the dump files
C14_AtMostOneAfterStop ==
    /\ \A n \in PacketCounts :
          [](stop_program /\ counter = n => [](counter <= n + 1))
    /\ \A n \in PacketCounts :
          [](stop_program /\ pc = "loop" /\ counter = n =>
                [](counter = n /\ pc \in {"loop", "exit", "done"}))
    /\ [][(stop_program /\ pc = "loop") => (pc' = "exit" /\ cur' = cur)]_vars
    /\ [][pc = "exit" => (pc' = "done" /\ cur' = cur /\ counter' = counter)]_vars

\* the flag is set and the second frame is in hand: the signal came while
\* sniff was blocked in the read or after the read, and the frame is still
\* to be processed
C14_Witness ==
    /\ stop_program
    /\ pc = "process"
    /\ counter = 1
    /\ ret = 1
-----------------------------------------------------------------------------
\* the contexts whose entry in the dump table is an open handle
ContextsWithOpenHandle(d, h) == {c \in DOMAIN d : d[c] # NULL /\ h[d[c]].open}

\* how many times handle hid was closed by the calls cs
CloseCount(cs, hid) ==
    Cardinality({i \in DOMAIN cs : cs[i] = [op |-> "pcap_dump_close", res |-> hid]})

\* C15: on a clean exit of the loop sniff closes every open dump handle of
\* the table exactly once and no other handle, reports exactly the contexts
\* that had an open handle, and leaves no dump handle open
C15_CleanExitClosesDumpers ==
    [][pc = "exit" =>
          /\ pc' = "done"
          /\ \A c \in ContextsWithOpenHandle(dumpers, handles) :
                 CloseCount(calls', dumpers[c]) = 1
          /\ \A hid \in DOMAIN handles :
                 CloseCount(calls', hid) =
                     IF \E c \in ContextsWithOpenHandle(dumpers, handles) : dumpers[c] = hid
                     THEN 1 ELSE 0
          /\ {calls'[i].res : i \in CallsOf(calls', "printf")}
                 = ContextsWithOpenHandle(dumpers, handles)
          /\ Cardinality(CallsOf(calls', "printf"))
                 = Cardinality(ContextsWithOpenHandle(dumpers, handles))
          /\ \A hid \in DOMAIN handles' : ~handles'[hid].open]_vars

\* the loop was left with the dump files of two contexts open, and both
\* were closed
C15_Witness ==
    /\ pc = "done"
    /\ \E c1 \in DOMAIN dumpers, c2 \in DOMAIN dumpers :
        /\ c1 # c2
        /\ dumpers[c1] # NULL
        /\ dumpers[c2] # NULL
        /\ CloseCount(calls, dumpers[c1]) = 1
        /\ CloseCount(calls, dumpers[c2]) = 1
-----------------------------------------------------------------------------
\* the resource was acquired once and released once
ReleasedOnce(x) == resources[x] = [acq |-> 1, rel |-> 1]

\* the resource was acquired once and is still held
StillHeld(x) == resources[x] = [acq |-> 1, rel |-> 0]

\* C16, as stated: in every terminal state reached from the loop, after the
\* closing of the dump files as well as after a failed packet, the
\* decompressor, the compressor and the capture handle are released
C16_Original ==
    pc \in {"done", "halted"} => \A x \in Resources : ReleasedOnce(x)

\* C16, amended: after a clean exit of the loop the decompressor, the
\* compressor and the capture handle are each released once; a session that
\* ends on a failed packet, or inside compress_decompress, ends by assert(0):
\* the process is aborted and sniff releases none of the three
C16_ReleasedUnlessAborted ==
    /\ pc = "done" => (exit_status = "success" /\ \A x \in Resources : ReleasedOnce(x))
    /\ pc \in {"halted", "aborted"} =>
          (exit_status = "abort" /\ \A x \in Resources : StillHeld(x))
    /\ pc \in {"loop", "read", "process", "exit"} => \A x \in Resources : StillHeld(x)

\* a session that processed packets left the loop and released everything
C16_Witness ==
    /\ pc = "done"
    /\ counter >= 1
    /\ \A x \in Resources : ReleasedOnce(x)
-----------------------------------------------------------------------------
\* what sniff holds: the resources acquired and not released
HeldResources == {x \in Resources : resources[x].acq > resources[x].rel}

\* C17: a session that fails before the loop (device not opened, link layer
\* type not supported, a checked step of the construction or configuration of
\* the engines failed) ends with exit status 1, with no packet read or
\* processed and with every resource acquired so far released once and no
\* other; nothing is ever released twice or without being acquired; and the
\* exit status is 0 only after a clean exit of the loop
C17_SetupFailure ==
    /\ pc = "failed" =>
          /\ exit_status = "failure"
          /\ counter = 0 /\ cur = NoInput /\ calls = <<>> /\ handles = <<>>
          /\ HeldResources = {}
    /\ \A x \in Resources :
          resources[x].rel <= resources[x].acq /\ resources[x].acq <= 1
    /\ exit_status = "failure" <=> pc = "failed"
    /\ exit_status = "success" <=> pc = "done"
    /\ pc \in SetupPcs => (counter = 0 /\ cur = NoInput /\ exit_status = "running")

\* the setup failed after the compressor was created and before the
\* decompressor was: the compressor and the handle were released, the
\* decompressor was neither created nor released
C17_Witness ==
    /\ pc = "failed"
    /\ resources["handle"] = [acq |-> 1, rel |-> 1]
    /\ resources["comp"] = [acq |-> 1, rel |-> 1]
    /\ resources["decomp"] = [acq |-> 0, rel |-> 0]
-----------------------------------------------------------------------------
\* the first n frames of the flow of the scenario, in arrival order
ScenarioFrames(n) == [i \in 1 .. n |-> ScenarioFrame(link_len_src, i - 1)]

\* the decompressor gave back the bytes that were compressed
DecompressedSame(cs, arg) ==
    /\ \E i \in CallsOf(cs, "rohc_decompress") : cs[i].res > 0
    /\ arg # <<>>
    /\ arg[3] = SubSeq(arg[1], 1, arg[2])

\* C18: for a flow of well-formed IPv4 UDP packets that the engine reports in
\* context 0, newly initialized for the first packet only: the first packet
\* creates the dump file of context 0, every later packet is appended
\* through the same handle with no close, unlink or open, the file holds the
\* frames processed so far in arrival order, and every packet whose bytes
\* the decompressor gives back reports success
C18_FlowReusesDumpFile ==
    /\ [](counter >= 1 =>
            /\ dumpers[0] = 1
            /\ Len(handles) = 1
            /\ handles[1].file = CidFile(0)
            /\ handles[1].content = ScenarioFrames(counter)
            /\ handles[1].open = (pc # "done")
            /\ files[CidFile(0)] = 1
            /\ stats.nb_ok = IF pc = "halted" THEN counter - 1 ELSE counter)
    /\ [][(pc = "process" /\ counter' = counter + 1) =>
            /\ counter = 0 =>
                   \E i \in DOMAIN calls' :
                       /\ TableMutations(calls') = {i}
                       /\ calls'[i] = [op |-> "pcap_dump_open", res |-> 1]
            /\ counter >= 1 => (TableMutations(calls') = {} /\ dumpers' = dumpers)
            /\ DecompressedSame(calls', cmp_arg') => (ret' = 1 /\ pc' = "loop")]_vars

\* three packets of the flow were processed with success and the dump file
\* of context 0 holds the three frames
C18_Witness ==
    /\ traffic = "scenario"
    /\ counter = 3
    /\ pc = "loop"
    /\ stats.nb_ok = 3
    /\ Len(handles) = 1
    /\ handles[1].open
    /\ handles[1].content = ScenarioFrames(3)
-----------------------------------------------------------------------------
\* the six counters of the statistics
StatCounters == {"nb_ok", "err_comp", "err_decomp", "nb_ref", "nb_bad", "nb_internal_err"}

\* the five counters of the failures
FailureCounters == StatCounters \ {"nb_ok"}

\* the counter of an outcome: success, compression failure, decompression
\* failure, mismatch, malformed capture, engine information unavailable
CounterOf(outcome) ==
    CASE outcome = 1 -> "nb_ok"
      [] outcome = -1 -> "err_comp"
      [] outcome = -2 -> "err_decomp"
      [] outcome = 0 -> "nb_ref"
      [] outcome = -3 -> "nb_bad"
      [] outcome = -4 -> "nb_internal_err"

\* C19: a packet whose processing returns an outcome adds one to the counter
\* of that outcome and leaves the other five alone (a packet in which the
\* process dies returns none and changes none); no step lowers a counter;
\* while the session runs or drains every failure counter is 0 and the
\* success counter is the number of packets processed; in the halted state
\* exactly one failure counter is 1, the others are 0
C19_OneCounterPerPacket ==
    /\ [][counter' = counter + 1 =>
            IF pc' \in {"aborted", "crashed"} THEN stats' = stats
            ELSE \A f \in StatCounters :
                     stats'[f] = IF f = CounterOf(ret') THEN stats[f] + 1 ELSE stats[f]]_vars
    /\ [][/\ \A f \in StatCounters : stats'[f] >= stats[f]
          /\ counter' = counter => stats' = stats]_vars
    /\ [](pc \in {"loop", "read", "process", "exit", "done"} =>
            /\ \A f \in FailureCounters : stats[f] = 0
            /\ stats.nb_ok = counter)
    /\ [](pc = "halted" =>
            /\ Cardinality({f \in FailureCounters : stats[f] = 1}) = 1
            /\ Cardinality({f \in FailureCounters : stats[f] = 0}) = 4
            /\ stats.nb_ok = counter - 1
            /\ stats[CounterOf(ret)] = 1)

\* the second packet failed on the engine's metadata after a first success
C19_Witness ==
    /\ pc = "halted"
    /\ counter = 2
    /\ ret = -4
    /\ stats.nb_ok = 1
    /\ stats.nb_internal_err = 1
-----------------------------------------------------------------------------
\* the error stream holds the statistics line of the failed packet and then
\* the whole drain: the message that there is no trace, or the header line
\* and every retained trace, oldest first
DiagnosticsPrinted ==
    /\ Len(err_out) >= 2
    /\ err_out[1] = [msg |-> "stats", packet |-> counter, cid |-> cid, stats |-> stats]
    /\ IF trace_log = <<>>
       THEN err_out = <<err_out[1], [msg |-> "no trace to display"]>>
       ELSE /\ "announced" \in DOMAIN err_out[2]
            /\ Len(err_out) = 2 + Len(DrainedTraces)
            /\ DrainedTraces =
                   LastRecorded(IF Len(trace_log) < MAX_LAST_TRACES
                                THEN Len(trace_log) ELSE MAX_LAST_TRACES)

\* C20, as stated: every abnormal end of the session while a packet is
\* processed, the failures to open a dump file inside compress_decompress
\* included, comes after the statistics line and the full drain of the
\* traces on the error stream
C20_Original ==
    pc \in {"halted", "aborted"} => DiagnosticsPrinted

\* C20, amended: a session halted on an outcome other than success has the
\* statistics line and the full drain on the error stream; a session
\* aborted inside compress_decompress, on a dump file that cannot be opened,
\* has neither; sniff writes nothing on the error stream otherwise
C20_DiagnosticsUnlessAborted ==
    /\ pc = "halted" => DiagnosticsPrinted
    /\ pc # "halted" => err_out = <<>>

\* a session halted on a mismatch for a packet of context 1, with traces
\* in the ring
C20_Witness ==
    /\ pc = "halted"
    /\ ret = 0
    /\ cid = 1
    /\ Len(DrainedTraces) >= 2
    /\ DiagnosticsPrinted
-----------------------------------------------------------------------------
\* what the drain wrote: everything on the error stream after the
\* statistics line
DrainOutput(out) == SubSeq(out, 2, Len(out))

\* the shapes of the ring: nothing recorded, some slots used, every slot
\* used and the oldest in slot 0, the oldest cursor after the newest
RingShape ==
    IF last_traces_first = -1 /\ last_traces_last = -1 THEN "empty"
    ELSE IF last_traces_first > last_traces_last THEN "wrapped"
    ELSE IF last_traces_last - last_traces_first = MAX_LAST_TRACES - 1 THEN "full"
    ELSE "partial"

\* C21: the drain of a ring in which nothing was ever recorded (both
\* cursors at -1) writes the message that there is no trace and no slot of
\* the ring; the drain of a ring of any shape leaves both cursors and every
\* slot as they were
C21_EmptyDrainAndNoMutation ==
    /\ [][(pc = "idle" /\ pc' = "halted") =>
            /\ last_traces' = last_traces
            /\ last_traces_first' = last_traces_first
            /\ last_traces_last' = last_traces_last
            /\ (last_traces_first = -1 /\ last_traces_last = -1) =>
                   DrainOutput(err_out') = <<[msg |-> "no trace to display"]>>
            /\ RingShape # "empty" =>
                   \A i \in 1 .. Len(err_out') : err_out'[i] # [msg |-> "no trace to display"]]_vars
    /\ [](pc = "halted" /\ trace_log = <<>> =>
            /\ last_traces_first = -1 /\ last_traces_last = -1
            /\ DrainOutput(err_out) = <<[msg |-> "no trace to display"]>>)

\* a failure with nothing recorded: the cursors are at -1 and the drain
\* wrote the message
C21_Witness ==
    /\ pc = "halted"
    /\ trace_log = <<>>
    /\ RingShape = "empty"
    /\ Len(err_out) = 2
    /\ err_out[2] = [msg |-> "no trace to display"]
-----------------------------------------------------------------------------
\* C22: whatever contexts (inside 0 .. max_contexts - 1) and whatever
\* is_context_init flags the engine reports, the frame is only ever written
\* through an open dump handle: when pcap_dump runs for the reported context,
\* the entry of the table for that context is a handle that is open
C22_AppendOnlyToOpenHandle ==
    [][(counter' = counter + 1 /\ last_packet_info' # NoInput) =>
          \A i \in CallsOf(calls', "pcap_dump") :
              /\ calls'[i].res # NULL
              /\ calls'[i].res = dumpers'[last_packet_info'.context_id]
              /\ handles'[calls'[i].res].open]_vars
-----------------------------------------------------------------------------
\* the number of lines the ring retains, from its two cursors
RetainedLines ==
    ((last_traces_last - last_traces_first) % MAX_LAST_TRACES) + 1

\* C23: after K calls of print_rohc_traces on a ring of N slots: the oldest
\* cursor is -1 exactly when the newest one is, and exactly when K = 0;
\* otherwise both are in 0 .. N - 1, ((last - first) mod N) + 1 = min(K, N),
\* and once K >= N the oldest cursor is (last + 1) mod N; the ring keeps its
\* N slots, each of at most MAX_TRACE_LEN characters, and a call always
\* records its line in the slot of the newest cursor
C23_RingCursors ==
    /\ [](LET K == Len(trace_log)
              N == MAX_LAST_TRACES
          IN  /\ (last_traces_first = -1) <=> (last_traces_last = -1)
              /\ (last_traces_last = -1) <=> (K = 0)
              /\ K >= 1 =>
                     /\ last_traces_first \in 0 .. N - 1
                     /\ last_traces_last \in 0 .. N - 1
                     /\ RetainedLines = IF K < N THEN K ELSE N
                     /\ last_traces[last_traces_last]
                            = LastRecorded(1)[1]
              /\ K >= N => last_traces_first = (last_traces_last + 1) % N
              /\ DOMAIN last_traces = 0 .. N - 1
              /\ \A i \in DOMAIN last_traces : Len(last_traces[i]) <= MAX_TRACE_LEN)
    /\ [][Len(trace_log') = Len(trace_log) + 1 =>
            /\ last_traces_last' \in 0 .. MAX_LAST_TRACES - 1
            /\ \A i \in DOMAIN last_traces :
                   i # last_traces_last' => last_traces'[i] = last_traces[i]]_vars

\* the ring wrapped twice over its first slot: N + 2 lines recorded
C23_Witness ==
    /\ Len(trace_log) = MAX_LAST_TRACES + 2
    /\ last_traces_last = 1
    /\ last_traces_first = 2
    /\ RetainedLines = MAX_LAST_TRACES

-----------------------------------------------------------------------------
(* C24: the content of the dump file of a context                          *)

\* the positions of the log at which the engine reported is_context_init for
\* context c
InitsOf(log, c) ==
    {i \in 1 .. Len(log) : log[i].context_id = c /\ log[i].is_context_init}

\* the frames of the log assigned to context c from position from on, in
\* arrival order
RECURSIVE FramesOfFrom(_, _, _)
FramesOfFrom(log, c, from) ==
    IF from > Len(log) THEN <<>>
    ELSE IF log[from].context_id = c
         THEN <<log[from].frame>> \o FramesOfFrom(log, c, from + 1)
         ELSE FramesOfFrom(log, c, from + 1)

\* the frames assigned to context c since, and including, the most recent
\* packet for which the engine reported is_context_init for c
FramesSinceInit(log, c) ==
    IF InitsOf(log, c) = {} THEN <<>>
    ELSE FramesOfFrom(log, c, CHOOSE i \in InitsOf(log, c) :
                                  \A j \in InitsOf(log, c) : j <= i)

\* C24: at every point of the session (SpecDumps), for each context c with an open dump
\* handle, that handle is the one of the dump file of c and its content is
\* exactly the frames assigned to c since (and including) the most recent
\* packet reported with is_context_init for c, in arrival order: no frame
\* from before that packet and no frame of another context
C24_DumpFileContent ==
    \A c \in ContextsWithOpenHandle(dumpers, handles) :
        /\ files[CidFile(c)] = dumpers[c]
        /\ handles[dumpers[c]].content = FramesSinceInit(assigned, c)

\* C24 witness: the session is running after two packets of different frames
\* both assigned to one context, the second with is_context_init: the open
\* dump file of the context holds the second frame only
C24_Witness ==
    /\ pc = "loop"
    /\ Len(assigned) = 2
    /\ assigned[1].frame # assigned[2].frame
    /\ assigned[1].context_id = assigned[2].context_id
    /\ assigned[2].is_context_init
    /\ assigned[2].context_id \in ContextsWithOpenHandle(dumpers, handles)
    /\ handles[dumpers[assigned[2].context_id]].content = <<assigned[2].frame>>

\* C24 second witness: two contexts have an open dump file each, and each
\* file holds the frame of its own context only
C24_WitnessTwoContexts ==
    /\ pc = "loop"
    /\ Len(assigned) = 2
    /\ assigned[1].context_id # assigned[2].context_id
    /\ assigned[1].frame # assigned[2].frame
    /\ ContextsWithOpenHandle(dumpers, handles) = {assigned[1].context_id, assigned[2].context_id}

-----------------------------------------------------------------------------
(* C25: the number of traces the drain announces                           *)

\* the numbers announced by the header lines "print the last %d traces..."
\* on the error stream
AnnouncedCounts ==
    LET headers == SelectSeq(err_out, LAMBDA l : "announced" \in DOMAIN l)
    IN  [i \in 1 .. Len(headers) |-> headers[i].announced]

\* C25: when the ring is drained with at least one line recorded, wrapped
\* or not, the drain prints one header line and the number it announces is
\* the number of trace lines printed after it
C25_AnnouncedEqualsPrinted ==
    (pc = "halted" /\ Len(trace_log) >= 1) =>
        AnnouncedCounts = <<Len(DrainedTraces)>>

====
